---- MODULE Spec2Model ----
\* getAndAnalyzeIPRoute.py: log in to three routers, read 'show ip route',
\* parse it with the built-in TextFSM template and print, per device, the
\* number of distinct Connected/EIGRP/Local/OSPF/Static routes.
\*
\* A line of text is modelled as a sequence of tokens.  A token is a maximal
\* piece of the line that one fragment of the template's regular expressions
\* consumes: c is its lexical class, v its text.  Whitespace that a rule
\* consumes with a repetition or with the space-or-asterisk alternative is
\* kept as one "sp" token per character; a single whitespace inside a fixed
\* phrase is part of the literal token.  The classes are disjoint, so greedy
\* matching needs no backtracking inside a rule.
EXTENDS Integers, Sequences, FiniteSets, TLC

VARIABLES
    pc,            \* position of main(): connect, template, command, disconnect,
                   \* parse, unique, report, cleanup, done
    dev,           \* index into ipAddressList of the device being processed
    openSessions,  \* devices whose SSH session is open
    connectLog,    \* devices for which establishSSHConnect was called, in order
    disconnectTried, \* devices for which net_connect.disconnect() was called
    obtained,      \* devices whose 'show ip route' output was written to shRoute
    reported,      \* devices for which a Route Summary was printed
    shRoute,       \* lines of the temporary file handed to ParseText
    pos,           \* index of the next line ParseText reads
    re_table,      \* the TextFSM object: cur, value, myvar, result
    routeInfo,     \* the table ParseText returned
    uniqueRoutes,  \* set of (protocol, network, mask) of this device
    reports        \* the Route Summaries printed so far, in order, each with
                   \* the text, table and route set it was computed from

vars == <<pc, dev, openSessions, connectLog, disconnectTried, obtained,
          reported, shRoute, pos, re_table, routeInfo, uniqueRoutes, reports>>

-----------------------------------------------------------------------------
(* Bounds *)

\* longest text of the parser specification, in lines
MaxLines == 3

-----------------------------------------------------------------------------
(* The template written by build_iproute_template *)

None == "<None>"

ValueNames ==
    <<"PROTOCOL", "TYPE", "NETWORK", "MASK", "DISTANCE", "METRIC",
      "NEXTHOP_IP", "NEXTHOP_IF", "UPTIME">>

Names == {ValueNames[i] : i \in 1..Len(ValueNames)}

\* MASK declared without Filldown
FilldownNamesNoMask == {"PROTOCOL", "TYPE", "NETWORK"}

\* names declared with the Filldown option
FilldownNames == {"PROTOCOL", "TYPE", "NETWORK", "MASK"}

\* NETWORK declared Filldown only
RequiredNamesNone == {}

\* names declared with the Required option
RequiredNames == {"NETWORK"}

\* token classes each Value's regular expression accepts
ValueClasses ==
    [n \in Names |->
        CASE n = "PROTOCOL"   -> {"w1"}
          [] n = "TYPE"       -> {"w2"}
          [] n = "NETWORK"    -> {"ip"}
          [] n = "MASK"       -> {"num2"}
          [] n = "DISTANCE"   -> {"num2", "num3"}
          [] n = "METRIC"     -> {"num2", "num3"}
          [] n = "NEXTHOP_IP" -> {"ip"}
          [] n = "NEXTHOP_IF" -> {"ifname"}
          [] n = "UPTIME"     -> {"time"}]

\* the template without its EOF block
StateNamesNoEOF == {"Start", "Routes"}

\* the state blocks of the template
StateNames == {"Start", "Routes", "EOF"}

(* pattern elements *)
Cap(n)    == [k |-> "cap", cs |-> ValueClasses[n], v |-> "", cap |-> n]
CapOpt(n) == [k |-> "cap0", cs |-> ValueClasses[n], v |-> "", cap |-> n]
Lit(s)    == [k |-> "lit", cs |-> {"lit"}, v |-> s, cap |-> ""]
Cls(c)    == [k |-> "cls", cs |-> c, v |-> "", cap |-> ""]
Plus(c)   == [k |-> "plus", cs |-> c, v |-> "", cap |-> ""]
Star(c)   == [k |-> "star", cs |-> c, v |-> "", cap |-> ""]
Rest      == [k |-> "rest", cs |-> {}, v |-> "", cap |-> ""]

Rule(pat, opts, recop, new) ==
    [pat |-> pat, opts |-> opts, lineop |-> "Next", recop |-> recop,
     new_state |-> new]

\* PROTOCOL, one space or asterisk, TYPE (may be empty), spaces, NETWORK
RouteHead ==
    <<Cap("PROTOCOL"), Cls({"sp", "star"}), CapOpt("TYPE"), Plus({"sp"}),
      Cap("NETWORK")>>

\* slash MASK
SlashMask == <<Lit("/"), Cap("MASK")>>

\* DISTANCE slash METRIC and the closing bracket
DistMetric == <<Cap("DISTANCE"), Lit("/"), Cap("METRIC"), Lit("]")>>

\* via NEXTHOP_IP
Via == <<Lit(" via "), Cap("NEXTHOP_IP")>>

\* the two optional groups: comma UPTIME, comma NEXTHOP_IF
ViaOpts == << <<Lit(", "), Cap("UPTIME")>>, <<Lit(", "), Cap("NEXTHOP_IF")>> >>

SubnettedAction == "Clear"

\* the network/mask rule recording at once
NetMaskOnlyRecords == "Record"

NetMaskOnlyAction == "NoRecord"

\* the continuation rule going on to the rules below it after recording
ViaRuleContinues ==
    [Rule(<<Plus({"sp"}), Lit("[")>> \o DistMetric \o Via, ViaOpts, "Record", "")
       EXCEPT !.lineop = "Continue"]

\* the rest of the route on the line below the network: Record, next line
ViaRule ==
    Rule(<<Plus({"sp"}), Lit("[")>> \o DistMetric \o Via, ViaOpts, "Record", "")

\* the whitespace rule going back to Start
BlankRestarts == "Start"

\* the whitespace rule names no new state
BlankNewState == ""

RoutesRules ==
    << \* "is (variably) subnetted" line
       Rule(<<Plus({"sp"}), Cls({"ip"})>> \o SlashMask \o <<Lit(" is")>>,
            <<>>, SubnettedAction, ""),
       \* directly connected route with explicit mask
       Rule(RouteHead \o SlashMask
              \o <<Lit(" is"), Lit(" directly connected, "), Cap("NEXTHOP_IF")>>,
            <<>>, "Record", ""),
       \* directly connected route, mask inherited
       Rule(RouteHead
              \o <<Lit(" is"), Lit(" directly connected, "), Cap("NEXTHOP_IF")>>,
            <<>>, "Record", ""),
       \* regular route with mask, all data in the same line
       Rule(RouteHead \o SlashMask \o <<Lit(" [")>> \o DistMetric \o Via,
            ViaOpts, "Record", ""),
       \* regular route, one line, mask learned from "is subnetted"
       Rule(RouteHead \o <<Lit(" [")>> \o DistMetric \o Via,
            ViaOpts, "Record", ""),
       \* route with no via statement
       Rule(RouteHead \o SlashMask \o <<Lit(" [")>> \o DistMetric
              \o <<Lit(", "), Cap("UPTIME"), Lit(", "), Cap("NEXTHOP_IF")>>,
            <<>>, "Record", ""),
       \* "is a summary" route
       Rule(RouteHead \o SlashMask
              \o <<Lit(" is"), Lit(" a summary, "), Cap("UPTIME"), Lit(", "),
                   Cap("NEXTHOP_IF")>>,
            <<>>, "Record", ""),
       \* network/mask on the line above the rest of the route
       Rule(RouteHead \o SlashMask, <<>>, NetMaskOnlyAction, ""),
       \* network only on the line above the rest of the route
       Rule(RouteHead, <<>>, "NoRecord", ""),
       \* the rest of the route on the line below the network
       ViaRule,
       \* load-balanced routes
       Rule(<<Plus({"sp"}), Lit("[")>> \o DistMetric \o Via,
            <<>>, "Record", ""),
       \* any run of whitespace, also the empty one, with no end anchor
       Rule(<<Star({"sp"})>>, <<>>, "Clearall", BlankNewState) >>

\* the route rules placed in the Start state
StartRulesAreRoutes == RoutesRules

StartRules ==
    << Rule(<<Cls({"gateway"}), Rest>>, <<>>, "NoRecord", "Routes") >>

States ==
    [s \in StateNames |->
        CASE s = "Start"  -> StartRules
          [] s = "Routes" -> RoutesRules
          [] s = "EOF"    -> <<>>]

-----------------------------------------------------------------------------
(* Matching one rule against one line: re.match, anchored at the start only *)

Unset == "<unset>"

NoCaps == [n \in Names |-> Unset]

RECURSIVE SkipWhile(_, _, _)
\* first position at or after j whose token is not of a class in cs
SkipWhile(toks, j, cs) ==
    IF j <= Len(toks) /\ toks[j].c \in cs
    THEN SkipWhile(toks, j + 1, cs)
    ELSE j

Fits(e, toks, j) ==
    /\ j <= Len(toks)
    /\ toks[j].c \in e.cs
    /\ (e.k = "lit" => toks[j].v = e.v)

RECURSIVE MatchSeq(_, _, _, _, _)
\* match the elements pat[i..] at token j; caps are the groups captured so far
MatchSeq(pat, i, toks, j, caps) ==
    IF i > Len(pat) THEN [ok |-> TRUE, j |-> j, caps |-> caps]
    ELSE LET e == pat[i] IN
      CASE e.k \in {"lit", "cls"} ->
             IF Fits(e, toks, j)
             THEN MatchSeq(pat, i + 1, toks, j + 1, caps)
             ELSE [ok |-> FALSE, j |-> j, caps |-> caps]
        [] e.k = "cap" ->
             IF Fits(e, toks, j)
             THEN MatchSeq(pat, i + 1, toks, j + 1,
                           [caps EXCEPT ![e.cap] = toks[j].v])
             ELSE [ok |-> FALSE, j |-> j, caps |-> caps]
        [] e.k = "cap0" ->
             IF Fits(e, toks, j)
             THEN MatchSeq(pat, i + 1, toks, j + 1,
                           [caps EXCEPT ![e.cap] = toks[j].v])
             ELSE MatchSeq(pat, i + 1, toks, j, [caps EXCEPT ![e.cap] = ""])
        [] e.k = "plus" ->
             IF Fits(e, toks, j)
             THEN MatchSeq(pat, i + 1, toks, SkipWhile(toks, j, e.cs), caps)
             ELSE [ok |-> FALSE, j |-> j, caps |-> caps]
        [] e.k = "star" ->
             MatchSeq(pat, i + 1, toks, SkipWhile(toks, j, e.cs), caps)
        [] e.k = "rest" ->
             MatchSeq(pat, i + 1, toks, Len(toks) + 1, caps)

\* the named groups of an optional group that did not take part are None
GroupNone(grp, caps) ==
    [n \in Names |->
        IF \E i \in 1..Len(grp) : grp[i].cap = n THEN None ELSE caps[n]]

RECURSIVE MatchOpts(_, _, _, _, _)
MatchOpts(opts, g, toks, j, caps) ==
    IF g > Len(opts) THEN caps
    ELSE LET m == MatchSeq(opts[g], 1, toks, j, caps) IN
         IF m.ok
         THEN MatchOpts(opts, g + 1, toks, m.j, m.caps)
         ELSE MatchOpts(opts, g + 1, toks, j, GroupNone(opts[g], caps))

\* the match object of a rule on a line: ok, and groupdict (Unset: no such group)
CheckRule(rule, line) ==
    LET m == MatchSeq(rule.pat, 1, line, 1, NoCaps) IN
    IF m.ok
    THEN [ok |-> TRUE, caps |-> MatchOpts(rule.opts, 1, line, m.j, m.caps)]
    ELSE [ok |-> FALSE, caps |-> NoCaps]

-----------------------------------------------------------------------------
(* The TextFSM object: cur, value, myvar, result *)
\* The operators of this section follow the textfsm library, which main()
\* calls and the repository does not contain: _CheckLine, _AssignVar,
\* _Operations, _AppendRecord, _ClearRecord, _ClearAllRecord and the options
\* Required and Filldown.

NoValues == [n \in Names |-> None]

\* TextFSM(fileIn): Reset() leaves the Start state, no values, no result
NewTextFSM ==
    [cur |-> "Start", value |-> NoValues,
     myvar |-> [n \in Names |-> None], result |-> <<>>]

\* value.AssignVar for every group of the match, with Filldown.OnAssignVar
AssignVars(fsm, caps) ==
    [fsm EXCEPT
       !.value = [n \in Names |->
                    IF caps[n] = Unset THEN fsm.value[n] ELSE caps[n]],
       !.myvar = [n \in Names |->
                    IF caps[n] # Unset /\ n \in FilldownNames
                    THEN caps[n] ELSE fsm.myvar[n]]]

\* _ClearRecord: every value is reset; Filldown.OnClearVar restores its own
ClearRecord(fsm) ==
    [fsm EXCEPT
       !.value = [n \in Names |->
                    IF n \in FilldownNames THEN fsm.myvar[n] ELSE None]]

\* _ClearAllRecord: Filldown.OnClearAllVar forgets the kept value too
ClearAllRecord(fsm) ==
    [fsm EXCEPT !.value = NoValues, !.myvar = [n \in Names |-> None]]

Row(val) ==
    [i \in 1..Len(ValueNames) |->
        IF val[ValueNames[i]] = None THEN "" ELSE val[ValueNames[i]]]

\* _AppendRecord: Required.OnSaveRecord raises SkipRecord on an empty value
AppendRecord(fsm) ==
    IF \E n \in RequiredNames : fsm.value[n] \in {None, ""}
    THEN ClearRecord(fsm)
    ELSE IF \A n \in Names : fsm.value[n] = None
    THEN fsm
    ELSE ClearRecord([fsm EXCEPT !.result = Append(fsm.result, Row(fsm.value))])

\* _Operations: the record operator of the matched rule
Operations(fsm, rule) ==
    CASE rule.recop = "Record"   -> AppendRecord(fsm)
      [] rule.recop = "Clear"    -> ClearRecord(fsm)
      [] rule.recop = "Clearall" -> ClearAllRecord(fsm)
      [] OTHER                   -> fsm

RECURSIVE CheckRules(_, _, _)
\* _CheckLine from rule r on: the first matching rule with line operator Next
\* ends the line; a new state other than End/EOF replaces the current one
CheckRules(fsm, r, line) ==
    LET rules == States[fsm.cur] IN
    IF r > Len(rules) THEN fsm
    ELSE LET m == CheckRule(rules[r], line) IN
         IF ~m.ok THEN CheckRules(fsm, r + 1, line)
         ELSE LET f == Operations(AssignVars(fsm, m.caps), rules[r]) IN
              IF rules[r].lineop = "Continue"
              THEN CheckRules(f, r + 1, line)
              ELSE IF rules[r].new_state = "" THEN f
                   ELSE [f EXCEPT !.cur = rules[r].new_state]

CheckLineFSM(fsm, line) == CheckRules(fsm, 1, line)

-----------------------------------------------------------------------------
(* Lines of 'show ip route' output *)

Tok(c, v) == [c |-> c, v |-> v]
SP == Tok("sp", " ")
L(s) == Tok("lit", s)

\* "P   net": protocol letter, spaces, network
LineHead(p, net) == <<Tok("w1", p), SP, SP, SP, Tok("ip", net)>>
Slash(m) == <<L("/"), Tok("num2", m)>>
DM(d, m) == <<Tok("num3", d), L("/"), Tok("num2", m), L("]")>>
ViaTo(ip) == <<L(" via "), Tok("ip", ip)>>
Connected(ifc) == <<L(" is"), L(" directly connected, "), Tok("ifname", ifc)>>
UpIf(t, ifc) == <<L(", "), Tok("time", t), L(", "), Tok("ifname", ifc)>>

\* Gateway of last resort is not set
GatewayLine == <<Tok("gateway", "Gateway"), Tok("text", " of last resort is not set")>>
\*      10.0.0.0/16 is subnetted, 1 subnets
SubnettedLine(m) ==
    <<SP, SP, Tok("ip", "10.0.0.0")>> \o Slash(m)
      \o <<L(" is"), Tok("text", " subnetted, 1 subnets")>>
\* L   10.0.0.1/32 is directly connected, Gi0/1
LocalLine == LineHead("L", "10.0.0.1") \o Slash("32") \o Connected("Gi0/1")
\* C   10.0.0.0 is directly connected, Gi0/1
ConnectedLine == LineHead("C", "10.0.0.0") \o Connected("Gi0/1")
\* O   10.1.1.0/24 [110/20] via 10.0.0.2, 00:10:21, Gi0/1
OspfLine ==
    LineHead("O", "10.1.1.0") \o Slash("24") \o <<L(" [")>> \o DM("110", "20")
      \o ViaTo("10.0.0.2") \o UpIf("00:10:21", "Gi0/1")
\* O   10.1.1.0/24 [110/30] via 10.0.0.3
OspfLine2 ==
    LineHead("O", "10.1.1.0") \o Slash("24") \o <<L(" [")>> \o DM("110", "30")
      \o ViaTo("10.0.0.3")
\* O   10.1.1.0 [110/20] via 10.0.0.2, Gi0/1
OspfNoMaskLine ==
    LineHead("O", "10.1.1.0") \o <<L(" [")>> \o DM("110", "20")
      \o ViaTo("10.0.0.2") \o <<L(", "), Tok("ifname", "Gi0/1")>>
\* D   10.3.0.0/16 [90/5], 00:10:21, Null0
NullLine ==
    LineHead("D", "10.3.0.0") \o Slash("16") \o <<L(" [")>>
      \o <<Tok("num2", "90"), L("/"), Tok("num2", "5"), L("]")>>
      \o UpIf("00:10:21", "Null0")
\* B   10.3.0.0/16 is a summary, 00:10:21, Null0
SummaryLine ==
    LineHead("B", "10.3.0.0") \o Slash("16")
      \o <<L(" is"), L(" a summary, "), Tok("time", "00:10:21"), L(", "),
           Tok("ifname", "Null0")>>
\* O   10.1.1.0/24
NetMaskLine == LineHead("O", "10.1.1.0") \o Slash("24")
\* S*  10.2.2.0
NetLine == <<Tok("w1", "S"), Tok("star", "*"), SP, SP, Tok("ip", "10.2.2.0")>>
\*        [110/20] via 10.0.0.2, 00:10:21, Gi0/1
ViaLine ==
    <<SP, SP, L("[")>> \o DM("110", "20") \o ViaTo("10.0.0.2")
      \o UpIf("00:10:21", "Gi0/1")
\*        [110/20] via 10.0.0.3
ViaLine2 == <<SP, SP, L("[")>> \o DM("110", "20") \o ViaTo("10.0.0.3")
BlankLine == <<>>
\* Codes: C - connected, S - static
TextLine == <<Tok("text", "Codes: C - connected, S - static")>>

LineSet ==
    {GatewayLine, SubnettedLine("16"), LocalLine, ConnectedLine, OspfLine,
     OspfLine2, OspfNoMaskLine, NullLine, SummaryLine, NetMaskLine, NetLine,
     ViaLine, ViaLine2, BlankLine, TextLine}

\* S   10.2.2.0/24 [1/0] via 10.0.0.3
StaticLine ==
    LineHead("S", "10.2.2.0") \o Slash("24") \o <<L(" [")>>
      \o <<Tok("num2", "1"), L("/"), Tok("num2", "0"), L("]")>>
      \o ViaTo("10.0.0.3")

\* the five-line sample
SampleText ==
    <<GatewayLine, SubnettedLine("24"), ConnectedLine, OspfLine, StaticLine>>

RECURSIVE TextsOfLen(_)
TextsOfLen(n) ==
    IF n = 0 THEN {<<>>}
    ELSE {Append(t, l) : t \in TextsOfLen(n - 1), l \in LineSet}

\* every text of at most MaxLines lines, and each of them again behind the
\* Gateway line that opens the route list
Texts ==
    LET short == UNION {TextsOfLen(n) : n \in 0..MaxLines}
    IN  short \cup {<<GatewayLine>> \o t : t \in short}

\* the outputs a device may return in the three-device run
DeviceTexts ==
    {<<>>, SampleText,
     <<GatewayLine, NetMaskLine>>,
     <<GatewayLine, OspfLine, OspfLine2>>,
     <<GatewayLine, NetMaskLine, ViaLine, ViaLine2, BlankLine, SummaryLine>>,
     <<OspfLine>>}

-----------------------------------------------------------------------------
(* main() *)

ipAddressList == <<"10.102.3.11", "10.102.3.12", "10.102.3.13">>

Devices == 1..Len(ipAddressList)

\* a failed connection ending the run
ConnectFailureAborts == FALSE

\* main() goes on with the next device when establishSSHConnect returns False
ConnectFailureSkips == TRUE

\* the exception of send_command leaving main()
CommandFailureAborts == FALSE

\* the try around clear_buffer/send_command catches the exception
CommandFailureCaught == TRUE

\* one table kept for all devices
KeepTable(old) == old

\* the table ParseText runs on: a TextFSM built anew for each device
ReadTemplate(old) == NewTextFSM

\* the whole row as the key
RouteKeyWholeRow(row) == row

\* fields 0, 2 and 3 of a row: protocol, network, mask
RouteKey(row) == <<row[1], row[3], row[4]>>

UniqueRoutesOf(table) == {RouteKey(table[i]) : i \in 1..Len(table)}

\* the EIGRP line filtering on the OSPF letter
CategoryLetterCopied ==
    [Connected |-> "C", EIGRP |-> "O", Local |-> "L", OSPF |-> "O",
     Static |-> "S"]

\* the letter each printed line filters on
CategoryLetter ==
    [Connected |-> "C", EIGRP |-> "D", Local |-> "L", OSPF |-> "O",
     Static |-> "S"]

Categories == DOMAIN CategoryLetter

\* the filter comparing the wrong field of the key
CountOfNetwork(routes, letter) == Cardinality({x \in routes : x[2] = letter})

CountOf(routes, letter) == Cardinality({x \in routes : x[1] = letter})

ReportOf(routes) == [c \in Categories |-> CountOf(routes, CategoryLetter[c])]

\* the for loop moves on to the next address, or ends
NextDevice ==
    /\ dev' = dev + 1
    /\ pc' = IF dev + 1 > Len(ipAddressList) THEN "cleanup" ELSE "connect"

Init ==
    /\ pc = "connect"
    /\ dev = 1
    /\ openSessions = {}
    /\ connectLog = <<>>
    /\ disconnectTried = {}
    /\ obtained = {}
    /\ reported = {}
    /\ shRoute = <<>>
    /\ pos = 1
    /\ re_table = NewTextFSM
    /\ routeInfo = <<>>
    /\ uniqueRoutes = {}
    /\ reports = <<>>

\* establishSSHConnect and the test of its result
Connect ==
    /\ pc = "connect"
    /\ connectLog' = Append(connectLog, dev)
    /\ \E ok \in BOOLEAN :
         IF ok
         THEN /\ openSessions' = openSessions \cup {dev}
              /\ pc' = "template"
              /\ dev' = dev
         ELSE /\ openSessions' = openSessions
              /\ IF ConnectFailureSkips
                 THEN NextDevice
                 ELSE pc' = "done" /\ dev' = dev
    /\ UNCHANGED <<disconnectTried, obtained, reported, shRoute, pos, re_table,
                   routeInfo, uniqueRoutes, reports>>

\* re_table = textfsm.TextFSM(fileIn)
Template ==
    /\ pc = "template"
    /\ re_table' = ReadTemplate(re_table)
    /\ pc' = "command"
    /\ UNCHANGED <<dev, openSessions, connectLog, disconnectTried, obtained,
                   reported, shRoute, pos, routeInfo, uniqueRoutes, reports>>

\* clear_buffer and send_command into the new temporary file
Command ==
    /\ pc = "command"
    /\ \/ \E t \in DeviceTexts :
            /\ shRoute' = t
            /\ obtained' = obtained \cup {dev}
            /\ pc' = "disconnect"
       \/ /\ shRoute' = <<>>
          /\ obtained' = obtained
          /\ pc' = IF CommandFailureCaught THEN "disconnect" ELSE "done"
    /\ UNCHANGED <<dev, openSessions, connectLog, disconnectTried, reported,
                   pos, re_table, routeInfo, uniqueRoutes, reports>>

\* net_connect.disconnect(), whose exception is logged only
Disconnect ==
    /\ pc = "disconnect"
    /\ disconnectTried' = disconnectTried \cup {dev}
    /\ \E ok \in BOOLEAN :
         openSessions' = IF ok THEN openSessions \ {dev} ELSE openSessions
    /\ pos' = 1
    /\ pc' = "parse"
    /\ UNCHANGED <<dev, connectLog, obtained, reported, shRoute, re_table,
                   routeInfo, uniqueRoutes, reports>>

\* ParseText: one line of the text through _CheckLine
CheckLine ==
    /\ pc = "parse"
    /\ pos <= Len(shRoute)
    /\ re_table.cur \notin {"End", "EOF"}
    /\ re_table' = CheckLineFSM(re_table, shRoute[pos])
    /\ pos' = pos + 1
    /\ UNCHANGED <<pc, dev, openSessions, connectLog, disconnectTried,
                   obtained, reported, shRoute, routeInfo, uniqueRoutes,
                   reports>>

\* the end of ParseText: the implicit EOF state records once more, but only
\* for a template that has no EOF state of its own
AtEndOfText(fsm) ==
    IF fsm.cur # "End" /\ "EOF" \notin StateNames
    THEN AppendRecord(fsm)
    ELSE fsm

ParseEnd ==
    /\ pc = "parse"
    /\ pos > Len(shRoute) \/ re_table.cur \in {"End", "EOF"}
    /\ re_table' = AtEndOfText(re_table)
    /\ routeInfo' = re_table'.result
    /\ pc' = "unique"
    /\ UNCHANGED <<dev, openSessions, connectLog, disconnectTried, obtained,
                   reported, shRoute, pos, uniqueRoutes, reports>>

\* the set of the unique protocol, network and mask
Unique ==
    /\ pc = "unique"
    /\ uniqueRoutes' = UniqueRoutesOf(routeInfo)
    /\ pc' = "report"
    /\ UNCHANGED <<dev, openSessions, connectLog, disconnectTried, obtained,
                   reported, shRoute, pos, re_table, routeInfo, reports>>

\* the printed Route Summary, then the next device
Report ==
    /\ pc = "report"
    /\ reports' = Append(reports,
                         [dev |-> dev, counts |-> ReportOf(uniqueRoutes),
                          text |-> shRoute, table |-> routeInfo,
                          routes |-> uniqueRoutes])
    /\ reported' = reported \cup {dev}
    /\ NextDevice
    /\ UNCHANGED <<openSessions, connectLog, disconnectTried, obtained,
                   shRoute, pos, re_table, routeInfo, uniqueRoutes>>

\* os.remove of the template file
Cleanup ==
    /\ pc = "cleanup"
    /\ pc' = "done"
    /\ UNCHANGED <<dev, openSessions, connectLog, disconnectTried, obtained,
                   reported, shRoute, pos, re_table, routeInfo, uniqueRoutes,
                   reports>>

Next ==
    \/ Connect
    \/ Template
    \/ Command
    \/ Disconnect
    \/ CheckLine
    \/ ParseEnd
    \/ Unique
    \/ Report
    \/ Cleanup

Spec == Init /\ [][Next]_vars

\* the parser and the report on every text of at most MaxLines lines: the
\* first device has answered with the text and its session is closed
ParseInit ==
    /\ pc = "parse"
    /\ dev = 1
    /\ openSessions = {}
    /\ connectLog = <<1>>
    /\ disconnectTried = {1}
    /\ obtained = {1}
    /\ reported = {}
    /\ shRoute \in Texts
    /\ pos = 1
    /\ re_table = ReadTemplate(NewTextFSM)
    /\ routeInfo = <<>>
    /\ uniqueRoutes = {}
    /\ reports = <<>>

ParseNext ==
    \/ CheckLine
    \/ ParseEnd
    \/ Unique
    \/ Report

ParseSpec == ParseInit /\ [][ParseNext]_vars

-----------------------------------------------------------------------------
(* Properties *)

\* the line the next CheckLine step reads
CurLine == shRoute[pos]

\* the step is a CheckLine step
LineStep == pc = "parse" /\ pos' = pos + 1

\* what decides line in the state of fsm: the record operator and the groups
\* of the first matching rule, and the values after its captures
RECURSIVE DecideFrom(_, _, _)
DecideFrom(fsm, r, line) ==
    IF r > Len(States[fsm.cur])
    THEN [rule |-> 0, recop |-> "NoRecord", caps |-> NoCaps,
          value |-> fsm.value]
    ELSE LET m == CheckRule(States[fsm.cur][r], line) IN
         IF m.ok
         THEN [rule |-> r, recop |-> States[fsm.cur][r].recop,
               caps |-> m.caps, value |-> AssignVars(fsm, m.caps).value]
         ELSE DecideFrom(fsm, r + 1, line)

Decide(fsm, line) == DecideFrom(fsm, 1, line)

\* the state of the automaton after the first n lines of a text
RECURSIVE After(_, _)
After(t, n) ==
    IF n = 0 THEN NewTextFSM ELSE CheckLineFSM(After(t, n - 1), t[n])

Protocols(table) == [i \in 1..Len(table) |-> table[i][1]]

\* C1: the five-line sample yields exactly three rows with protocols C, O, S
\* in that order, and its report shows Connected=1, OSPF=1, Static=1,
\* EIGRP=0, Local=0.
C1_SampleReport ==
    /\ (pc \in {"unique", "report"} /\ shRoute = SampleText)
         => Protocols(routeInfo) = <<"C", "O", "S">>
    /\ \A i \in 1..Len(reports) :
         reports[i].text = SampleText
           => /\ Protocols(reports[i].table) = <<"C", "O", "S">>
              /\ reports[i].counts =
                   [Connected |-> 1, OSPF |-> 1, Static |-> 1, EIGRP |-> 0,
                    Local |-> 0]

C1_Witness ==
    \E i \in 1..Len(reports) :
        reports[i].text = SampleText /\ Len(reports[i].table) = 3

\* a Record rule decides the line while NETWORK is empty after the captures
RecordWithoutNetwork(fsm, line) ==
    LET d == Decide(fsm, line) IN
    d.recop = "Record" /\ d.value["NETWORK"] \in {None, ""}

RecordWithNetwork(fsm, line) ==
    LET d == Decide(fsm, line) IN
    d.recop = "Record" /\ d.value["NETWORK"] \notin {None, ""}

\* C2: a Record action taken while NETWORK has no capture appends no row and
\* leaves the automaton running in its state; a Record action taken with
\* NETWORK captured appends one row; no row of the table has an empty NETWORK.
C2_RequiredNetwork ==
    /\ [][LineStep =>
            LET d == Decide(re_table, CurLine) IN
            /\ (d.recop = "Record" /\ d.value["NETWORK"] \in {None, ""})
                 => /\ re_table'.result = re_table.result
                    /\ re_table'.cur = re_table.cur
                    /\ pc' = "parse"
            /\ (d.recop = "Record" /\ d.value["NETWORK"] \notin {None, ""})
                 => Len(re_table'.result) = Len(re_table.result) + 1]_vars
    /\ [](\A i \in 1..Len(re_table.result) : re_table.result[i][3] # "")

\* a Record was suppressed on an earlier line and a later Record appended
C2_Witness ==
    /\ pc = "parse"
    /\ \E i \in 1..(pos - 1) :
         /\ RecordWithoutNetwork(After(shRoute, i - 1), shRoute[i])
         /\ Len(After(shRoute, i).result) < Len(re_table.result)

SameKey(r1, r2) == r1[1] = r2[1] /\ r1[3] = r2[3] /\ r1[4] = r2[4]

\* rows that are the first of the table with their protocol, network, mask
FirstOfKey(table) ==
    {i \in 1..Len(table) : \A j \in 1..(i - 1) : ~SameKey(table[i], table[j])}

\* C3: the set of distinct routes holds exactly one entry per distinct
\* (protocol, network, mask) of the table, however many rows share it.
C3_Dedup ==
    pc = "report"
      => /\ Cardinality(uniqueRoutes) = Cardinality(FirstOfKey(routeInfo))
         /\ \A i \in 1..Len(routeInfo) :
              <<routeInfo[i][1], routeInfo[i][3], routeInfo[i][4]>>
                \in uniqueRoutes
         /\ \A k \in uniqueRoutes :
              \E i \in 1..Len(routeInfo) :
                k = <<routeInfo[i][1], routeInfo[i][3], routeInfo[i][4]>>

\* two rows share the key, differ in metric and next hop, and count once
C3_Witness ==
    /\ pc = "report"
    /\ \E i, j \in 1..Len(routeInfo) :
         /\ i # j
         /\ SameKey(routeInfo[i], routeInfo[j])
         /\ routeInfo[i][6] # routeInfo[j][6]
         /\ routeInfo[i][7] # routeInfo[j][7]
    /\ Cardinality(uniqueRoutes) < Len(routeInfo)


\* C4: whatever fails on a device, establishSSHConnect is called for each of
\* the three devices, in list order: the calls so far are exactly the devices
\* up to the one being processed, a failure leaves the run at a step of the
\* loop, and the run is over only after the last device was attempted.
C4_AllDevicesAttempted ==
    /\ \A i \in 1..Len(connectLog) : connectLog[i] = i
    /\ pc = "connect" => dev \in Devices /\ Len(connectLog) = dev - 1
    /\ pc \in {"template", "command", "disconnect", "parse", "unique", "report"}
         => dev \in Devices /\ Len(connectLog) = dev
    /\ pc \in {"cleanup", "done"} => Len(connectLog) = Len(ipAddressList)
    /\ pc \in {"connect", "template", "command", "disconnect", "parse",
                "unique", "report", "cleanup", "done"}

\* the first connection was refused, the second device's command raised, and
\* the third device was still attempted
C4_Witness ==
    /\ Len(connectLog) = 3
    /\ 1 \notin disconnectTried
    /\ 2 \in disconnectTried \ obtained

\* C5: a device whose connection or command fails is skipped: it is not
\* parsed and gets no Route Summary; only devices whose output was obtained do.
C5_FailedDeviceSkipped ==
    /\ reported \subseteq obtained
    /\ pc \in {"parse", "unique", "report"} => dev \in obtained

\* number of lines of a text on which a Record action appended a row
RECURSIVE RecordCount(_, _)
RecordCount(t, n) ==
    IF n = 0 THEN 0
    ELSE RecordCount(t, n - 1)
           + (IF RecordWithNetwork(After(t, n - 1), t[n]) THEN 1 ELSE 0)

\* C6: the end of the text records nothing: the table returned is the result
\* as the last line left it, one row per Record action that appended a row.
C6_NoFinalRecord ==
    [][pc = "parse" /\ pc' = "unique"
         => /\ routeInfo' = re_table.result
            /\ Len(routeInfo') = RecordCount(shRoute, pos - 1)]_vars

\* the text ended on a network/mask line whose values were never recorded
C6_Witness ==
    /\ pc = "unique"
    /\ Len(shRoute) > 1
    /\ shRoute[Len(shRoute)] = NetMaskLine
    /\ re_table.cur = "Routes"
    /\ re_table.value["NETWORK"] = "10.1.1.0"
    /\ routeInfo = <<>>

FieldOf(n) == CHOOSE i \in 1..Len(ValueNames) : ValueNames[i] = n

Shown(v) == IF v = None THEN "" ELSE v

\* C7: a line that neither captures PROTOCOL, TYPE, NETWORK or MASK anew nor
\* applies Clearall leaves that value as it was, and a row appended by the
\* line carries it; Record and Clear reset DISTANCE, METRIC, NEXTHOP_IP,
\* NEXTHOP_IF and UPTIME.
C7_FilldownPersists ==
    [][LineStep =>
         LET d == Decide(re_table, CurLine) IN
         /\ \A n \in {"PROTOCOL", "TYPE", "NETWORK", "MASK"} :
              (d.recop # "Clearall" /\ d.caps[n] = Unset)
                => /\ re_table'.value[n] = re_table.value[n]
                   /\ Len(re_table'.result) > Len(re_table.result)
                        => re_table'.result[Len(re_table'.result)][FieldOf(n)]
                             = Shown(re_table.value[n])
         /\ d.recop \in {"Record", "Clear"}
              => \A m \in {"DISTANCE", "METRIC", "NEXTHOP_IP", "NEXTHOP_IF",
                           "UPTIME"} :
                   re_table'.value[m] = None]_vars

\* a network captured by a recorded route survived that Record and a later
\* Clear, and a continuation line recorded a row carrying it
C7_Witness ==
    /\ pc = "parse"
    /\ \E i, j, k \in 1..(pos - 1) :
         /\ i < j /\ j < k
         /\ RecordWithNetwork(After(shRoute, i - 1), shRoute[i])
         /\ Decide(After(shRoute, i - 1), shRoute[i]).caps["NETWORK"] # Unset
         /\ \A h \in (i + 1)..k :
              LET d == Decide(After(shRoute, h - 1), shRoute[h]) IN
              d.caps["NETWORK"] = Unset /\ d.recop # "Clearall"
         /\ Decide(After(shRoute, j - 1), shRoute[j]).recop = "Clear"
         /\ RecordWithNetwork(After(shRoute, k - 1), shRoute[k])
         /\ LET t == After(shRoute, k).result IN
              t[Len(t)][3] = After(shRoute, i).value["NETWORK"]

\* C8: every parse starts in Start with no value and no row, and a text
\* parsed again gives the table it gave for an earlier device.
C8_FreshRun ==
    /\ pc = "command"
         => /\ re_table.cur = "Start"
            /\ \A n \in Names :
                 re_table.value[n] = None /\ re_table.myvar[n] = None
            /\ re_table.result = <<>>
    /\ pc \in {"unique", "report"}
         => \A i \in 1..Len(reports) :
              reports[i].text = shRoute => reports[i].table = routeInfo

\* the sample was parsed, then a text that leaves values behind, then the
\* sample again
C8_Witness ==
    /\ pc = "report"
    /\ Len(reports) = 2
    /\ reports[1].text = SampleText
    /\ reports[2].text = <<GatewayLine, NetMaskLine>>
    /\ shRoute = SampleText
    /\ Len(routeInfo) = 3

Mapped == {"C", "D", "L", "O", "S"}

\* C9: in every report the five counts are the numbers of distinct routes
\* with protocol C, D, L, O and S; they add up to the number of distinct
\* routes with one of these protocols, which is at most the number of
\* distinct routes.
C9_CategoryCounts ==
    \A i \in 1..Len(reports) :
      LET r == reports[i]
          n(p) == Cardinality({x \in r.routes : x[1] = p})
      IN  /\ r.counts.Connected = n("C")
          /\ r.counts.EIGRP = n("D")
          /\ r.counts.Local = n("L")
          /\ r.counts.OSPF = n("O")
          /\ r.counts.Static = n("S")
          /\ r.counts.Connected + r.counts.EIGRP + r.counts.Local
               + r.counts.OSPF + r.counts.Static
               = Cardinality({x \in r.routes : x[1] \in Mapped})
          /\ r.counts.Connected + r.counts.EIGRP + r.counts.Local
               + r.counts.OSPF + r.counts.Static
               <= Cardinality(r.routes)

\* a report over a route with protocol B and a route with a mapped protocol
C9_Witness ==
    \E i \in 1..Len(reports) :
      /\ \E x \in reports[i].routes : x[1] \notin Mapped
      /\ \E x \in reports[i].routes : x[1] \in Mapped
      /\ reports[i].counts.OSPF = 1

\* a line that is only protocol, type and network
OnlyNetwork(line) ==
    /\ Len(line) >= 3
    /\ line[1].c = "w1"
    /\ line[Len(line)].c = "ip"
    /\ \A i \in 2..(Len(line) - 1) : line[i].c \in {"sp", "star", "w2"}

\* a line that is only protocol, type and network/mask
OnlyNetworkMask(line) ==
    /\ Len(line) >= 5
    /\ line[Len(line)].c = "num2"
    /\ line[Len(line) - 1] = L("/")
    /\ OnlyNetwork(SubSeq(line, 1, Len(line) - 2))

NetworkLine(line) == OnlyNetwork(line) \/ OnlyNetworkMask(line)

NetworkIn(line) ==
    IF OnlyNetwork(line) THEN line[Len(line)].v ELSE line[Len(line) - 2].v

\* index of the opening bracket of an indented continuation line, 0 if none
Bracket(line) ==
    IF \E b \in 2..Len(line) :
         /\ line[b] = L("[")
         /\ \A i \in 1..(b - 1) : line[i].c = "sp"
    THEN CHOOSE b \in 2..Len(line) :
           /\ line[b] = L("[")
           /\ \A i \in 1..(b - 1) : line[i].c = "sp"
    ELSE 0

\* an indented [distance/metric] via next-hop line
ViaContinuation(line) ==
    /\ Bracket(line) # 0
    /\ Len(line) >= Bracket(line) + 6
    /\ line[Bracket(line) + 5] = L(" via ")

\* C10: in Routes a line that is only protocol, type and network, with or
\* without /mask, appends no row and keeps what it captured; an indented
\* [distance/metric] via line right after it appends exactly one row, with
\* protocol, network and mask of the first line and distance, metric and
\* next hop of the second.
C10_TwoLineRoute ==
    /\ [][LineStep /\ re_table.cur = "Routes" /\ NetworkLine(CurLine)
            => /\ re_table'.result = re_table.result
               /\ re_table'.value["PROTOCOL"] = CurLine[1].v
               /\ re_table'.value["NETWORK"] = NetworkIn(CurLine)
               /\ OnlyNetworkMask(CurLine)
                    => re_table'.value["MASK"] = CurLine[Len(CurLine)].v]_vars
    /\ [][(/\ LineStep
           /\ pos > 1
           /\ ViaContinuation(CurLine)
           /\ NetworkLine(shRoute[pos - 1])
           /\ After(shRoute, pos - 2).cur = "Routes")
            => LET first == shRoute[pos - 1]
                   b == Bracket(CurLine)
                   new == re_table'.result
               IN  /\ Len(new) = Len(re_table.result) + 1
                   /\ SubSeq(new, 1, Len(new) - 1) = re_table.result
                   /\ new[Len(new)][1] = first[1].v
                   /\ new[Len(new)][3] = NetworkIn(first)
                   /\ OnlyNetworkMask(first)
                        => new[Len(new)][4] = first[Len(first)].v
                   /\ OnlyNetwork(first)
                        => new[Len(new)][4]
                             = Shown(After(shRoute, pos - 2).value["MASK"])
                   /\ new[Len(new)][5] = CurLine[b + 1].v
                   /\ new[Len(new)][6] = CurLine[b + 3].v
                   /\ new[Len(new)][7] = CurLine[b + 6].v]_vars

\* a network/mask line and its continuation were read and gave one row
C10_Witness ==
    /\ pc = "parse"
    /\ pos > 2
    /\ After(shRoute, pos - 3).cur = "Routes"
    /\ OnlyNetworkMask(shRoute[pos - 2])
    /\ ViaContinuation(shRoute[pos - 1])
    /\ Len(re_table.result) = Len(After(shRoute, pos - 3).result) + 1
    /\ re_table.result[Len(re_table.result)][5] = "110"


\* C11 as claimed: devices are processed one after the other, at most one SSH
\* session is open at any time, and a disconnect is attempted after the
\* command of every connected device.
C11_OneSessionOpen ==
    /\ Cardinality(openSessions) <= 1
    /\ pc \in {"parse", "unique", "report"} => dev \in disconnectTried

\* C11: every step for a device precedes the connect of the next one; the
\* command attempt of a connected device, raising or not, is followed by a
\* disconnect attempt; and at most one session is open whose disconnect has
\* not been attempted, that of the device being processed.
C11_Sequential ==
    /\ [](/\ \A i \in 1..Len(connectLog) : connectLog[i] <= dev
          /\ disconnectTried \cup obtained \cup reported \cup openSessions
               \subseteq 1..dev
          /\ openSessions \ disconnectTried \subseteq {dev}
          /\ Cardinality(openSessions \ disconnectTried) <= 1
          /\ pc \in {"parse", "unique", "report"} => dev \in disconnectTried)
    /\ [][connectLog' # connectLog
            => /\ pc = "connect"
               /\ connectLog' = Append(connectLog, dev)
               /\ openSessions \subseteq disconnectTried
               /\ obtained \subseteq disconnectTried
               /\ \A d \in 1..(dev - 1) :
                    d \in disconnectTried <=> d \in reported]_vars
    /\ [][pc = "command" => pc' = "disconnect" /\ dev' = dev]_vars
    /\ [][pc = "disconnect"
            => disconnectTried' = disconnectTried \cup {dev}]_vars

\* the command of the first device raised, its disconnect was attempted, it
\* was reported, and the second device is connected
C11_Witness ==
    /\ dev = 2
    /\ pc = "template"
    /\ 1 \in disconnectTried \ obtained
    /\ 1 \in reported
    /\ 2 \in openSessions


\* no line of the text begins with Gateway
NoGateway(t) == \A i \in 1..Len(t) : t[i] = <<>> \/ t[i][1].c # "gateway"

\* no line of the text matches a rule of the state current when it is read
NoLineMatches(t) ==
    \A i \in 1..Len(t) : Decide(After(t, i - 1), t[i]).rule = 0

\* C12: a text none of whose lines matches a rule of the current state, as
\* the empty text and every text without a Gateway line, is parsed to the
\* end, gives an empty table and a report of 0 in all five categories; a
\* line that matches no rule changes nothing.
C12_NoMatchEmptyTable ==
    /\ [](\A i \in 1..Len(reports) :
            LET r == reports[i] IN
            /\ NoGateway(r.text) => NoLineMatches(r.text)
            /\ NoLineMatches(r.text)
                 => /\ r.table = <<>>
                    /\ \A c \in {"Connected", "EIGRP", "Local", "OSPF",
                                 "Static"} : r.counts[c] = 0)
    /\ [](pc \in {"unique", "report"} /\ NoGateway(shRoute)
            => routeInfo = <<>> /\ pos = Len(shRoute) + 1)
    /\ [][LineStep /\ Decide(re_table, CurLine).rule = 0
            => re_table' = re_table /\ pc' = "parse"]_vars

\* a report of zeros for a text of route lines without a Gateway line
C12_Witness ==
    \E i \in 1..Len(reports) :
        /\ Len(reports[i].text) >= 2
        /\ NoGateway(reports[i].text)
        /\ \E j \in 1..Len(reports[i].text) : reports[i].text[j] = OspfLine
        /\ reports[i].table = <<>>
        /\ reports[i].counts.OSPF = 0


\* C13: a line appends at most one row, at the end of the table, and leaves
\* the rows before it as they are; the table returned is the rows in the
\* order of the lines that recorded them.
C13_AppendOnly ==
    /\ [][LineStep
            => \/ re_table'.result = re_table.result
               \/ /\ Len(re_table'.result) = Len(re_table.result) + 1
                  /\ SubSeq(re_table'.result, 1, Len(re_table.result))
                       = re_table.result]_vars
    /\ [][pc = "parse" /\ pc' = "unique" => routeInfo' = re_table.result]_vars
    /\ [](pc = "parse" /\ pos = Len(shRoute) + 1
            => \A n \in 0..(pos - 1) :
                 LET t == After(shRoute, n).result IN
                 /\ Len(t) <= n
                 /\ t = SubSeq(re_table.result, 1, Len(t)))

\* two different rows recorded by two lines, and a later line that left both
C13_Witness ==
    /\ pc = "parse"
    /\ pos > 3
    /\ Len(re_table.result) = 2
    /\ re_table.result[1] # re_table.result[2]
    /\ Len(After(shRoute, pos - 3).result) = 1
    /\ Len(After(shRoute, pos - 2).result) = 2


IsBlank(line) == \A i \in 1..Len(line) : line[i].c = "sp"
WhitespaceRule == Len(RoutesRules)

\* C14 as claimed: in Routes, Clearall is applied on empty lines only, and a
\* non-empty line that matches none of the route rules changes nothing.
C14_ClearallOnEmptyOnly ==
    [][LineStep /\ re_table.cur = "Routes" /\ ~IsBlank(CurLine)
         => LET d == Decide(re_table, CurLine) IN
            /\ d.recop # "Clearall"
            /\ d.rule \in {0, WhitespaceRule} => re_table' = re_table]_vars

\* C15 as claimed: after a subnetted header line in Routes the working record
\* holds the header's mask and nothing else, so a via line right after it
\* records no row.
C15_HeaderClearsAll ==
    /\ [][LineStep /\ re_table.cur = "Routes"
            /\ Decide(re_table, CurLine).recop = "Clear"
            => /\ re_table'.value["MASK"] = Decide(re_table, CurLine).caps["MASK"]
               /\ \A n \in Names \ {"MASK"} : re_table'.value[n] = None]_vars
    /\ [][LineStep /\ pos > 1 /\ ViaContinuation(CurLine)
            /\ After(shRoute, pos - 2).cur = "Routes"
            /\ Decide(After(shRoute, pos - 2), shRoute[pos - 1]).recop = "Clear"
            => re_table'.result = re_table.result]_vars

RECURSIVE LastHeader(_, _)
\* the last of the first n lines of t that the header rule matched in Routes,
\* 0 when there is none
LastHeader(t, n) ==
    IF n = 0 THEN 0
    ELSE LET f == After(t, n - 1) IN
         IF f.cur = "Routes" /\ Decide(f, t[n]).recop = "Clear"
         THEN n ELSE LastHeader(t, n - 1)

HeaderMask(t, n) == Decide(After(t, n - 1), t[n]).caps["MASK"]

\* C16 as claimed: a row recorded by a route line without a mask of its own
\* carries the mask of the last subnetted header line before it.
C16_MaskFromHeader ==
    [][LineStep /\ re_table.cur = "Routes"
         /\ Len(re_table'.result) = Len(re_table.result) + 1
         => LET d == Decide(re_table, CurLine)
                h == LastHeader(shRoute, pos - 1) IN
            d.caps["NETWORK"] # Unset /\ d.caps["MASK"] = Unset /\ h > 0
              => re_table'.result[Len(re_table'.result)][4]
                   = HeaderMask(shRoute, h)]_vars

AllNone(fsm) == \A n \in Names : fsm.value[n] = None /\ fsm.myvar[n] = None

\* C17: the automaton is in Start or Routes; in Start no value is held and no
\* row exists, so the lines up to and including the first Gateway line give
\* no row; a line read in Routes leaves the automaton in Routes.
C17_StateDiscipline ==
    /\ [](pc = "parse" => re_table.cur \in {"Start", "Routes"})
    /\ [](pc = "parse" /\ re_table.cur = "Start"
            => AllNone(re_table) /\ re_table.result = <<>>)
    /\ [][LineStep /\ re_table.cur = "Start"
            => /\ AllNone(re_table') /\ re_table'.result = <<>>
               /\ re_table'.cur = "Routes"
                    <=> CurLine # <<>> /\ CurLine[1].c = "gateway"]_vars
    /\ [][LineStep /\ re_table.cur = "Routes" => re_table'.cur = "Routes"]_vars

\* a route line before the Gateway line gave no row, the same line after it did
C17_Witness ==
    /\ pc = "parse"
    /\ pos = 4
    /\ shRoute = <<OspfLine, GatewayLine, OspfLine>>
    /\ re_table.cur = "Routes"
    /\ Len(re_table.result) = 1

====
